------------------------------ MODULE QmxSwitch ------------------------------
(***************************************************************************)
(* The switch of the generated decoder, compress_qmx_decompress.c: one     *)
(* unrolled case per selector byte.  The high four bits of the selector    *)
(* choose the width, the low four the number of stripes, 16 - low.  A case *)
(* is modelled by what a slip of the generator would get wrong: which      *)
(* stripe it unpacks, how often, and the literals by which it moves the    *)
(* byte pointer "in" and the integer pointer "to".  How one stripe is      *)
(* unpacked is QmxStripe's.                                                *)
(***************************************************************************)
EXTENDS QmxSwitchNarrow

\* Width 8.
Case0x80 == Unrolled(8, 16, 256, 256)
Case0x81 == Unrolled(8, 15, 240, 240)
Case0x82 == Unrolled(8, 14, 224, 224)
Case0x83 == Unrolled(8, 13, 208, 208)
Case0x84 == Unrolled(8, 12, 192, 192)
Case0x85 == Unrolled(8, 11, 176, 176)
Case0x86 == Unrolled(8, 10, 160, 160)
Case0x87 == Unrolled(8, 9, 144, 144)
Case0x88 == Unrolled(8, 8, 128, 128)
Case0x89 == Unrolled(8, 7, 112, 112)
Case0x8a == Unrolled(8, 6, 96, 96)
Case0x8b == Unrolled(8, 5, 80, 80)
Case0x8c == Unrolled(8, 4, 64, 64)
Case0x8d == Unrolled(8, 3, 48, 48)
\* Mutant: the byte pointer moves by one and a half stripes.
MutCase0x8e == Unrolled(8, 2, 24, 32)
Case0x8e == Unrolled(8, 2, 32, 32)
Case0x8f == Unrolled(8, 1, 16, 16)

\* Width 9.
Case0x90 == Unrolled(9, 16, 512, 448)
Case0x91 == Unrolled(9, 15, 480, 420)
Case0x92 == Unrolled(9, 14, 448, 392)
Case0x93 == Unrolled(9, 13, 416, 364)
Case0x94 == Unrolled(9, 12, 384, 336)
Case0x95 == Unrolled(9, 11, 352, 308)
Case0x96 == Unrolled(9, 10, 320, 280)
Case0x97 == Unrolled(9, 9, 288, 252)
Case0x98 == Unrolled(9, 8, 256, 224)
Case0x99 == Unrolled(9, 7, 224, 196)
Case0x9a == Unrolled(9, 6, 192, 168)
Case0x9b == Unrolled(9, 5, 160, 140)
Case0x9c == Unrolled(9, 4, 128, 112)
Case0x9d == Unrolled(9, 3, 96, 84)
Case0x9e == Unrolled(9, 2, 64, 56)
Case0x9f == Unrolled(9, 1, 32, 28)

\* Width 10.
Case0xa0 == Unrolled(10, 16, 256, 192)
Case0xa1 == Unrolled(10, 15, 240, 180)
Case0xa2 == Unrolled(10, 14, 224, 168)
Case0xa3 == Unrolled(10, 13, 208, 156)
Case0xa4 == Unrolled(10, 12, 192, 144)
Case0xa5 == Unrolled(10, 11, 176, 132)
Case0xa6 == Unrolled(10, 10, 160, 120)
Case0xa7 == Unrolled(10, 9, 144, 108)
Case0xa8 == Unrolled(10, 8, 128, 96)
Case0xa9 == Unrolled(10, 7, 112, 84)
Case0xaa == Unrolled(10, 6, 96, 72)
Case0xab == Unrolled(10, 5, 80, 60)
Case0xac == Unrolled(10, 4, 64, 48)
Case0xad == Unrolled(10, 3, 48, 36)
Case0xae == Unrolled(10, 2, 32, 24)
Case0xaf == Unrolled(10, 1, 16, 12)

\* Width 12.
Case0xb0 == Unrolled(12, 16, 512, 320)
Case0xb1 == Unrolled(12, 15, 480, 300)
Case0xb2 == Unrolled(12, 14, 448, 280)
Case0xb3 == Unrolled(12, 13, 416, 260)
Case0xb4 == Unrolled(12, 12, 384, 240)
Case0xb5 == Unrolled(12, 11, 352, 220)
Case0xb6 == Unrolled(12, 10, 320, 200)
Case0xb7 == Unrolled(12, 9, 288, 180)
Case0xb8 == Unrolled(12, 8, 256, 160)
Case0xb9 == Unrolled(12, 7, 224, 140)
Case0xba == Unrolled(12, 6, 192, 120)
Case0xbb == Unrolled(12, 5, 160, 100)
Case0xbc == Unrolled(12, 4, 128, 80)
Case0xbd == Unrolled(12, 3, 96, 60)
Case0xbe == Unrolled(12, 2, 64, 40)
Case0xbf == Unrolled(12, 1, 32, 20)

\* Width 16.
Case0xc0 == Unrolled(16, 16, 256, 128)
Case0xc1 == Unrolled(16, 15, 240, 120)
Case0xc2 == Unrolled(16, 14, 224, 112)
Case0xc3 == Unrolled(16, 13, 208, 104)
Case0xc4 == Unrolled(16, 12, 192, 96)
Case0xc5 == Unrolled(16, 11, 176, 88)
Case0xc6 == Unrolled(16, 10, 160, 80)
Case0xc7 == Unrolled(16, 9, 144, 72)
Case0xc8 == Unrolled(16, 8, 128, 64)
Case0xc9 == Unrolled(16, 7, 112, 56)
Case0xca == Unrolled(16, 6, 96, 48)
Case0xcb == Unrolled(16, 5, 80, 40)
Case0xcc == Unrolled(16, 4, 64, 32)
Case0xcd == Unrolled(16, 3, 48, 24)
Case0xce == Unrolled(16, 2, 32, 16)
Case0xcf == Unrolled(16, 1, 16, 8)

\* Width 21.
Case0xd0 == Unrolled(21, 16, 512, 192)
Case0xd1 == Unrolled(21, 15, 480, 180)
Case0xd2 == Unrolled(21, 14, 448, 168)
Case0xd3 == Unrolled(21, 13, 416, 156)
Case0xd4 == Unrolled(21, 12, 384, 144)
Case0xd5 == Unrolled(21, 11, 352, 132)
Case0xd6 == Unrolled(21, 10, 320, 120)
Case0xd7 == Unrolled(21, 9, 288, 108)
Case0xd8 == Unrolled(21, 8, 256, 96)
Case0xd9 == Unrolled(21, 7, 224, 84)
Case0xda == Unrolled(21, 6, 192, 72)
Case0xdb == Unrolled(21, 5, 160, 60)
Case0xdc == Unrolled(21, 4, 128, 48)
Case0xdd == Unrolled(21, 3, 96, 36)
Case0xde == Unrolled(21, 2, 64, 24)
Case0xdf == Unrolled(21, 1, 32, 12)

\* Width 32.
Case0xe0 == Unrolled(32, 16, 256, 64)
Case0xe1 == Unrolled(32, 15, 240, 60)
Case0xe2 == Unrolled(32, 14, 224, 56)
Case0xe3 == Unrolled(32, 13, 208, 52)
Case0xe4 == Unrolled(32, 12, 192, 48)
Case0xe5 == Unrolled(32, 11, 176, 44)
Case0xe6 == Unrolled(32, 10, 160, 40)
Case0xe7 == Unrolled(32, 9, 144, 36)
Case0xe8 == Unrolled(32, 8, 128, 32)
Case0xe9 == Unrolled(32, 7, 112, 28)
Case0xea == Unrolled(32, 6, 96, 24)
Case0xeb == Unrolled(32, 5, 80, 20)
Case0xec == Unrolled(32, 4, 64, 16)
Case0xed == Unrolled(32, 3, 48, 12)
Case0xee == Unrolled(32, 2, 32, 8)
Case0xef == Unrolled(32, 1, 16, 4)

\* Single words: every case falls through to the next, down to 0xff.
Case0xf0 == Unrolled(128, 16, 64, 16)
Case0xf1 == Unrolled(128, 15, 60, 15)
Case0xf2 == Unrolled(128, 14, 56, 14)
Case0xf3 == Unrolled(128, 13, 52, 13)
Case0xf4 == Unrolled(128, 12, 48, 12)
Case0xf5 == Unrolled(128, 11, 44, 11)
Case0xf6 == Unrolled(128, 10, 40, 10)
Case0xf7 == Unrolled(128, 9, 36, 9)
Case0xf8 == Unrolled(128, 8, 32, 8)
Case0xf9 == Unrolled(128, 7, 28, 7)
Case0xfa == Unrolled(128, 6, 24, 6)
Case0xfb == Unrolled(128, 5, 20, 5)
Case0xfc == Unrolled(128, 4, 16, 4)
Case0xfd == Unrolled(128, 3, 12, 3)
\* Mutant: one word too many.
MutCase0xfe == Unrolled(128, 3, 12, 3)
Case0xfe == Unrolled(128, 2, 8, 2)
Case0xff == Unrolled(128, 1, 4, 1)

\* switch (*keys--): the case of selector k is DecodeSwitch[k + 1].
DecodeSwitch ==
  <<Case0x00, Case0x01, Case0x02, Case0x03,
    Case0x04, Case0x05, Case0x06, Case0x07,
    Case0x08, Case0x09, Case0x0a, Case0x0b,
    Case0x0c, Case0x0d, Case0x0e, Case0x0f,
    Case0x10, Case0x11, Case0x12, Case0x13,
    Case0x14, Case0x15, Case0x16, Case0x17,
    Case0x18, Case0x19, Case0x1a, Case0x1b,
    Case0x1c, Case0x1d, Case0x1e, Case0x1f,
    Case0x20, Case0x21, Case0x22, Case0x23,
    Case0x24, Case0x25, Case0x26, Case0x27,
    Case0x28, Case0x29, Case0x2a, Case0x2b,
    Case0x2c, Case0x2d, Case0x2e, Case0x2f,
    Case0x30, Case0x31, Case0x32, Case0x33,
    Case0x34, Case0x35, Case0x36, Case0x37,
    Case0x38, Case0x39, Case0x3a, Case0x3b,
    Case0x3c, Case0x3d, Case0x3e, Case0x3f,
    Case0x40, Case0x41, Case0x42, Case0x43,
    Case0x44, Case0x45, Case0x46, Case0x47,
    Case0x48, Case0x49, Case0x4a, Case0x4b,
    Case0x4c, Case0x4d, Case0x4e, Case0x4f,
    Case0x50, Case0x51, Case0x52, Case0x53,
    Case0x54, Case0x55, Case0x56, Case0x57,
    Case0x58, Case0x59, Case0x5a, Case0x5b,
    Case0x5c, Case0x5d, Case0x5e, Case0x5f,
    Case0x60, Case0x61, Case0x62, Case0x63,
    Case0x64, Case0x65, Case0x66, Case0x67,
    Case0x68, Case0x69, Case0x6a, Case0x6b,
    Case0x6c, Case0x6d, Case0x6e, Case0x6f,
    Case0x70, Case0x71, Case0x72, Case0x73,
    Case0x74, Case0x75, Case0x76, Case0x77,
    Case0x78, Case0x79, Case0x7a, Case0x7b,
    Case0x7c, Case0x7d, Case0x7e, Case0x7f,
    Case0x80, Case0x81, Case0x82, Case0x83,
    Case0x84, Case0x85, Case0x86, Case0x87,
    Case0x88, Case0x89, Case0x8a, Case0x8b,
    Case0x8c, Case0x8d, Case0x8e, Case0x8f,
    Case0x90, Case0x91, Case0x92, Case0x93,
    Case0x94, Case0x95, Case0x96, Case0x97,
    Case0x98, Case0x99, Case0x9a, Case0x9b,
    Case0x9c, Case0x9d, Case0x9e, Case0x9f,
    Case0xa0, Case0xa1, Case0xa2, Case0xa3,
    Case0xa4, Case0xa5, Case0xa6, Case0xa7,
    Case0xa8, Case0xa9, Case0xaa, Case0xab,
    Case0xac, Case0xad, Case0xae, Case0xaf,
    Case0xb0, Case0xb1, Case0xb2, Case0xb3,
    Case0xb4, Case0xb5, Case0xb6, Case0xb7,
    Case0xb8, Case0xb9, Case0xba, Case0xbb,
    Case0xbc, Case0xbd, Case0xbe, Case0xbf,
    Case0xc0, Case0xc1, Case0xc2, Case0xc3,
    Case0xc4, Case0xc5, Case0xc6, Case0xc7,
    Case0xc8, Case0xc9, Case0xca, Case0xcb,
    Case0xcc, Case0xcd, Case0xce, Case0xcf,
    Case0xd0, Case0xd1, Case0xd2, Case0xd3,
    Case0xd4, Case0xd5, Case0xd6, Case0xd7,
    Case0xd8, Case0xd9, Case0xda, Case0xdb,
    Case0xdc, Case0xdd, Case0xde, Case0xdf,
    Case0xe0, Case0xe1, Case0xe2, Case0xe3,
    Case0xe4, Case0xe5, Case0xe6, Case0xe7,
    Case0xe8, Case0xe9, Case0xea, Case0xeb,
    Case0xec, Case0xed, Case0xee, Case0xef,
    Case0xf0, Case0xf1, Case0xf2, Case0xf3,
    Case0xf4, Case0xf5, Case0xf6, Case0xf7,
    Case0xf8, Case0xf9, Case0xfa, Case0xfb,
    Case0xfc, Case0xfd, Case0xfe, Case0xff>>

==============================================================================

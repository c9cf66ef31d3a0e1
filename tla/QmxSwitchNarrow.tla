--------------------------- MODULE QmxSwitchNarrow ---------------------------
(***************************************************************************)
(* The first half of the switch of the generated decoder: selectors 0x00   *)
(* to 0x7f, the widths up to seven bits.  Module QmxSwitch says how a case *)
(* is modelled and has the others.                                         *)
(***************************************************************************)
EXTENDS Integers

Unrolled(width, times, in, to) ==
    [width |-> width, times |-> times, in |-> in, to |-> to]

\* Width 0: runs of the value 1, nothing is read.
Case0x00 == Unrolled(0, 16, 0, 4096)
Case0x01 == Unrolled(0, 15, 0, 3840)
Case0x02 == Unrolled(0, 14, 0, 3584)
Case0x03 == Unrolled(0, 13, 0, 3328)
Case0x04 == Unrolled(0, 12, 0, 3072)
Case0x05 == Unrolled(0, 11, 0, 2816)
Case0x06 == Unrolled(0, 10, 0, 2560)
Case0x07 == Unrolled(0, 9, 0, 2304)
Case0x08 == Unrolled(0, 8, 0, 2048)
Case0x09 == Unrolled(0, 7, 0, 1792)
Case0x0a == Unrolled(0, 6, 0, 1536)
Case0x0b == Unrolled(0, 5, 0, 1280)
Case0x0c == Unrolled(0, 4, 0, 1024)
Case0x0d == Unrolled(0, 3, 0, 768)
Case0x0e == Unrolled(0, 2, 0, 512)
Case0x0f == Unrolled(0, 1, 0, 256)

\* Width 1.
Case0x10 == Unrolled(1, 16, 256, 2048)
Case0x11 == Unrolled(1, 15, 240, 1920)
Case0x12 == Unrolled(1, 14, 224, 1792)
Case0x13 == Unrolled(1, 13, 208, 1664)
Case0x14 == Unrolled(1, 12, 192, 1536)
Case0x15 == Unrolled(1, 11, 176, 1408)
Case0x16 == Unrolled(1, 10, 160, 1280)
Case0x17 == Unrolled(1, 9, 144, 1152)
Case0x18 == Unrolled(1, 8, 128, 1024)
Case0x19 == Unrolled(1, 7, 112, 896)
Case0x1a == Unrolled(1, 6, 96, 768)
Case0x1b == Unrolled(1, 5, 80, 640)
Case0x1c == Unrolled(1, 4, 64, 512)
Case0x1d == Unrolled(1, 3, 48, 384)
Case0x1e == Unrolled(1, 2, 32, 256)
Case0x1f == Unrolled(1, 1, 16, 128)

\* Width 2.
Case0x20 == Unrolled(2, 16, 256, 1024)
Case0x21 == Unrolled(2, 15, 240, 960)
Case0x22 == Unrolled(2, 14, 224, 896)
Case0x23 == Unrolled(2, 13, 208, 832)
Case0x24 == Unrolled(2, 12, 192, 768)
Case0x25 == Unrolled(2, 11, 176, 704)
Case0x26 == Unrolled(2, 10, 160, 640)
Case0x27 == Unrolled(2, 9, 144, 576)
Case0x28 == Unrolled(2, 8, 128, 512)
Case0x29 == Unrolled(2, 7, 112, 448)
Case0x2a == Unrolled(2, 6, 96, 384)
Case0x2b == Unrolled(2, 5, 80, 320)
Case0x2c == Unrolled(2, 4, 64, 256)
Case0x2d == Unrolled(2, 3, 48, 192)
Case0x2e == Unrolled(2, 2, 32, 128)
Case0x2f == Unrolled(2, 1, 16, 64)

\* Width 3.
Case0x30 == Unrolled(3, 16, 256, 640)
Case0x31 == Unrolled(3, 15, 240, 600)
Case0x32 == Unrolled(3, 14, 224, 560)
Case0x33 == Unrolled(3, 13, 208, 520)
Case0x34 == Unrolled(3, 12, 192, 480)
Case0x35 == Unrolled(3, 11, 176, 440)
Case0x36 == Unrolled(3, 10, 160, 400)
Case0x37 == Unrolled(3, 9, 144, 360)
Case0x38 == Unrolled(3, 8, 128, 320)
Case0x39 == Unrolled(3, 7, 112, 280)
Case0x3a == Unrolled(3, 6, 96, 240)
Case0x3b == Unrolled(3, 5, 80, 200)
Case0x3c == Unrolled(3, 4, 64, 160)
Case0x3d == Unrolled(3, 3, 48, 120)
Case0x3e == Unrolled(3, 2, 32, 80)
Case0x3f == Unrolled(3, 1, 16, 40)

\* Width 4.
Case0x40 == Unrolled(4, 16, 256, 512)
Case0x41 == Unrolled(4, 15, 240, 480)
Case0x42 == Unrolled(4, 14, 224, 448)
Case0x43 == Unrolled(4, 13, 208, 416)
Case0x44 == Unrolled(4, 12, 192, 384)
Case0x45 == Unrolled(4, 11, 176, 352)
Case0x46 == Unrolled(4, 10, 160, 320)
Case0x47 == Unrolled(4, 9, 144, 288)
Case0x48 == Unrolled(4, 8, 128, 256)
Case0x49 == Unrolled(4, 7, 112, 224)
Case0x4a == Unrolled(4, 6, 96, 192)
Case0x4b == Unrolled(4, 5, 80, 160)
Case0x4c == Unrolled(4, 4, 64, 128)
Case0x4d == Unrolled(4, 3, 48, 96)
Case0x4e == Unrolled(4, 2, 32, 64)
Case0x4f == Unrolled(4, 1, 16, 32)

\* Width 5.
Case0x50 == Unrolled(5, 16, 256, 384)
Case0x51 == Unrolled(5, 15, 240, 360)
Case0x52 == Unrolled(5, 14, 224, 336)
Case0x53 == Unrolled(5, 13, 208, 312)
Case0x54 == Unrolled(5, 12, 192, 288)
Case0x55 == Unrolled(5, 11, 176, 264)
Case0x56 == Unrolled(5, 10, 160, 240)
Case0x57 == Unrolled(5, 9, 144, 216)
Case0x58 == Unrolled(5, 8, 128, 192)
Case0x59 == Unrolled(5, 7, 112, 168)
Case0x5a == Unrolled(5, 6, 96, 144)
Case0x5b == Unrolled(5, 5, 80, 120)
Case0x5c == Unrolled(5, 4, 64, 96)
Case0x5d == Unrolled(5, 3, 48, 72)
Case0x5e == Unrolled(5, 2, 32, 48)
Case0x5f == Unrolled(5, 1, 16, 24)

\* Width 6.
Case0x60 == Unrolled(6, 16, 256, 320)
Case0x61 == Unrolled(6, 15, 240, 300)
Case0x62 == Unrolled(6, 14, 224, 280)
Case0x63 == Unrolled(6, 13, 208, 260)
Case0x64 == Unrolled(6, 12, 192, 240)
Case0x65 == Unrolled(6, 11, 176, 220)
Case0x66 == Unrolled(6, 10, 160, 200)
Case0x67 == Unrolled(6, 9, 144, 180)
Case0x68 == Unrolled(6, 8, 128, 160)
Case0x69 == Unrolled(6, 7, 112, 140)
Case0x6a == Unrolled(6, 6, 96, 120)
Case0x6b == Unrolled(6, 5, 80, 100)
Case0x6c == Unrolled(6, 4, 64, 80)
Case0x6d == Unrolled(6, 3, 48, 60)
Case0x6e == Unrolled(6, 2, 32, 40)
Case0x6f == Unrolled(6, 1, 16, 20)

\* Width 7.
Case0x70 == Unrolled(7, 16, 512, 576)
Case0x71 == Unrolled(7, 15, 480, 540)
Case0x72 == Unrolled(7, 14, 448, 504)
Case0x73 == Unrolled(7, 13, 416, 468)
Case0x74 == Unrolled(7, 12, 384, 432)
Case0x75 == Unrolled(7, 11, 352, 396)
Case0x76 == Unrolled(7, 10, 320, 360)
Case0x77 == Unrolled(7, 9, 288, 324)
Case0x78 == Unrolled(7, 8, 256, 288)
Case0x79 == Unrolled(7, 7, 224, 252)
Case0x7a == Unrolled(7, 6, 192, 216)
Case0x7b == Unrolled(7, 5, 160, 180)
Case0x7c == Unrolled(7, 4, 128, 144)
Case0x7d == Unrolled(7, 3, 96, 108)
Case0x7e == Unrolled(7, 2, 64, 72)
Case0x7f == Unrolled(7, 1, 32, 36)

==============================================================================

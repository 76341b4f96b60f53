----------------------------- MODULE MCStartup ------------------------------
(* Instances of Startup for TLC. *)
EXTENDS Startup

Card(gpu, power, alloc, strings) ==
  [lacks |-> {}, gpu |-> gpu, power |-> power, alloc |-> alloc, strings |-> strings]
Gpu == Card(TRUE, 1, 5, <<1, 2>>)
Driver(devs) == [lacks |-> {}, strings |-> <<1, 1>>, devs |-> devs]

\* the best, the first, one that does not exist
MCPlatformIndexes == {-1, 0, 5}

MCMachines ==
  { \* a strong CPU, then three GPUs of which the second has the least memory
    <<Driver(<<Card(FALSE, 40, 9, <<1>>)>>),
      Driver(<<Card(TRUE, 1, 7, <<1>>), Gpu, Card(TRUE, 1, 6, <<3>>)>>)>>,
    \* two platforms of the same score, with two devices and with one
    <<Driver(<<Gpu, Card(FALSE, 32, 4, <<1, 1>>)>>), Driver(<<Card(TRUE, 2, 8, <<2>>)>>)>>,
    \* no device; a device and a driver that are too old
    <<Driver(<<>>)>>,
    <<Driver(<<Gpu, [Gpu EXCEPT !.lacks = {"OpenCL C 1.1"}]>>)>>,
    <<[Driver(<<Gpu>>) EXCEPT !.lacks = {"OpenCL 1.1"}]>>,
    \* strings that are too long, by more than a terminator and by that
    <<Driver(<<[Gpu EXCEPT !.strings = <<4, 3>>]>>)>>,
    <<Driver(<<[Gpu EXCEPT !.strings = <<3, 2>>]>>)>>,
    <<[Driver(<<Gpu>>) EXCEPT !.strings = <<2, 2, 2>>]>>,
    <<>> }
=============================================================================

\* Keyboard, PS/2 mouse and another pointer driver, with one polling thread.
SPECIFICATION FairSpec
CONSTANTS
    NoByte = NoByte
    Pollers = {"compositor"}
    Traffic <- MCTraffic
    Mapped <- MCMapped
    Letters <- MCMapped
    RingSize = 3
    ReadMax = 2
    PollReads = 2
    PktExpect = 3
    Screens <- MCScreens
    Jumps <- MCJumps
INVARIANTS KeysInOrder
PROPERTIES InputDrained

-------------------------- MODULE MCAddressSpaces --------------------------
EXTENDS AddressSpaces, TLC
CONSTANTS p1, p2
MCFrame == 3 .. 19
MCUnmarked == {19}
MCProcess == {p1, p2}
MCModules == <<p1>>
MCSections == p1 :> <<[first |-> 0, last |-> 0], [first |-> 1, last |-> 1]>>
\* Pages behind the kernel heap's end and the own heap's,
\* between the stacks and the windows, of a window and of the page tables.
MCProgramPages == {18, 28, 54, 64, 75}
=============================================================================

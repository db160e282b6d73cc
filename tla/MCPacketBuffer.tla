--------------------------- MODULE MCPacketBuffer ---------------------------
EXTENDS PacketBuffer

\* PD 1 is this one, PD 2 another.
MCPoll(address) == <<Som, address, 8, 0, 4, 96, 7, 9>>
MCAck == <<Som, 130, 8, 0, 4, 64, 7, 9>>
\* An event of PD 2 whose data hold a start byte, and one whose data read as a header.
MCEvent == <<Som, 130, 9, 0, 4, 80, Som, 7, 9>>
MCHeaderEvent == <<Som, 130, 12, 0, 4, 80, Som, 2, 14, 0, 7, 9>>

MCCommands == {MCPoll(1), <<Mark>> \o MCPoll(1)}
MCNeighbours == {MCPoll(2) \o MCAck, <<Mark>> \o MCPoll(2) \o <<Mark>> \o MCEvent}
MCDisturbances == {MCHeaderEvent}
MCFrames == {MCPoll(1), MCPoll(2), MCAck, MCEvent, MCHeaderEvent}
=============================================================================

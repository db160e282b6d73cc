------------------------------ MODULE MCCpBus ------------------------------
\* One PD whose queue fills and wraps, two PDs on one channel, and three on two channels.
EXTENDS CpBus

MCTopologies == {<<1>>, <<1, 1>>, <<1, 1, 2>>}
MCMaxCmds == [t \in MCTopologies |-> IF Len(t) = 1 THEN 4 ELSE IF Len(t) = 2 THEN 1 ELSE 0]
MCMaxLate == [t \in MCTopologies |-> IF Len(t) = 2 THEN 1 ELSE 0]
============================================================================

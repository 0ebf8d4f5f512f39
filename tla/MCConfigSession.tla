-------------------------- MODULE MCConfigSession --------------------------
\* Two receiver channels and outputs, three switches, one mixer rule; a port
\* with MSP and one with a receiver; a gyro on I2C at 2 kHz.
EXTENDS ConfigSession
MCPorts == [serial_0 |-> [id |-> 0, function |-> 1], serial_1 |-> [id |-> 1, function |-> 64]]
MCBeeperMasks == {0}
=============================================================================

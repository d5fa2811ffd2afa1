------------------------------ MODULE MCPowerDown ------------------------------
EXTENDS PowerDown, TLC
=============================================================================

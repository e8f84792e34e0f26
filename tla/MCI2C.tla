-------------------------------- MODULE MCI2C --------------------------------
EXTENDS I2C
==============================================================================

---------------------------- MODULE MCI2cMaster ----------------------------
(***************************************************************************)
(* Two buses, bytes of two bits: a device with one address byte on the     *)
(* first, one with two on the second; a device address nobody has.         *)
(***************************************************************************)
EXTENDS I2cMaster

MCBuses == 1 .. 2
MCAddrSize == <<1, 2>>
MCContents == [b \in MCBuses |-> [a \in 0 .. 2^(2 * b) - 1 |-> (a + 2) % 4]]
Drivers == {"xgpio", "emio"}
MCCalls ==
  {RegWrite(1, st, 1, <<1>>, 2) : st \in BOOLEAN}
  \cup {emio_i2c_reg8_write(1, FALSE, 0, <<1>>, 0)}
  \cup {RegRead(1, st, 1, <<a>>) : st \in BOOLEAN, a \in {1, 2}}
  \cup {emio_i2c_reg8_read(1, FALSE, 1, <<2>>)}
  \cup {RegWrite(2, FALSE, 1, <<2, 1>>, 1), RegRead(2, FALSE, 1, <<2, 1>>)}
  \cup {emio_i2c_reg16_write(2, FALSE, 1, <<2, 1>>, 1), emio_i2c_reg16_read(2, FALSE, 1, <<2, 1>>)}
  \cup {PageWrite(drv, 1, 1, <<3>>, <<1, 2>>) : drv \in Drivers}
  \cup {EepromReadData(drv, 1, 1, <<3>>, 2) : drv \in Drivers}
=============================================================================

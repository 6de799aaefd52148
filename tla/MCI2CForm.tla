------------------------------ MODULE MCI2CForm ------------------------------
(* A small instance of module I2CForm: bytes of four values, a device of   *)
(* sixteen cells, rows of two.                                             *)
EXTENDS I2CForm

CONSTANTS t1, t2

(* One row, a part of one, several on both sides of ByteLimit, one cell,   *)
(* the end of the device and beyond, and what the page refuses.            *)
Dumps == {<<0, 1>>, <<1, 6>>, <<3, 3>>, <<13, 18>>, <<4, 2>>, <<None, 3>>}
=============================================================================

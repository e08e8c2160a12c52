----------------------------- MODULE MCFdTable -----------------------------
(* The JTAG UART, /dev/null, a device that may refuse, and a file system.   *)
EXTENDS FdTable

CONSTANTS jtag_uart, other, file, zip, missing

StdDevs == [c \in 0 .. 2 |-> IF c = 2 THEN missing ELSE jtag_uart]
Mounts  == [f \in {file} |-> zip]
=============================================================================

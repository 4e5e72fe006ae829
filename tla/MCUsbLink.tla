------------------------------ MODULE MCUsbLink ------------------------------
(***************************************************************************)
(* One stick with two buffers, of one and of two units.                    *)
(***************************************************************************)
EXTENDS UsbLink, TLC

CONSTANTS input, output

MCUnits == input :> 2 @@ output :> 1
=============================================================================

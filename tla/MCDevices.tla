----------------------------- MODULE MCDevices -------------------------------
(* Devices for TLC: inputs with and without a byte 255 before the end.        *)
EXTENDS Devices

MCChars == {"a", "b", EOF}
MCInputs == {<<"a", "b">>, <<EOF, "b">>}
=============================================================================

--------------------------- MODULE MCImageLibrary ---------------------------
(* Instances of ImageLibrary for TLC: a file uploaded by name and a raw one.  *)
EXTENDS ImageLibrary

CONSTANTS named, raw
=============================================================================

--------------------------- MODULE MCXmlStorage ---------------------------
(***************************************************************************)
(* Instances of XmlStorage for TLC: the default layout of four headers and *)
(* two data blocks, on a file and on an MTD, and the layouts and faults    *)
(* that the code does not survive.                                         *)
(***************************************************************************)
EXTENDS UBootConfig

CONSTANTS c1, c2

MCConfigs == {c1, c2}
UpdateOnly == {"update"}
UpdateAndFixup == {"update", "fixup"}
NoHeader == {}
SecondHeader == {1}
===========================================================================

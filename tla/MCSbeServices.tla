--------------------------- MODULE MCSbeServices ----------------------------
(* Chip-ops and dump collections on a few chips.                           *)
EXTENDS SbeServices

CONSTANTS
    Others,       \* the callers of a machine that is not the primary alone;
                  \* they do not call for the primary
    Anywhere,     \* the collector that any chip's dump may be asked of
    Path          \* its path

MCCalling == [p \in Populations |->
    IF p = {Primary} THEN Callers \X p ELSE Others \X (p \ {Primary})]

\* The others collect dumps of Odyssey chips.
MCAsked == [x \in Collectors |->
    IF x = Anywhere THEN Chips \X {Path} ELSE Ocmbs \X (Dirs \ {Path})]
=============================================================================

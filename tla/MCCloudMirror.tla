---------------------------- MODULE MCCloudMirror ----------------------------
EXTENDS CloudMirror

CONSTANTS a, b, f, g, h

\* Two items in album a, one in album b, whose directory begins with a's.
MCAlbumOf == [x \in {f, g, h} |-> IF x = h THEN b ELSE a]
MCSamePrefix == [x \in {a, b} |-> IF x = a THEN {a, b} ELSE {b}]
=============================================================================

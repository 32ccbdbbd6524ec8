SPECIFICATION Spec
CONSTANTS
    a = a
    b = b
    f = f
    g = g
    h = h
    Albums = {a, b}
    Files = {f, g, h}
    AlbumOf <- MCAlbumOf
    SamePrefix <- MCSamePrefix
    Mirrors = {m, n}
    Janitor = janitor
    NoMirror = none
    NoAlbum = noalbum
    MaxVersion = 2
    MaxDisturbances = 4
    Limits = {2}
    Workers = 2
INVARIANT MirroredFilesAreWhole

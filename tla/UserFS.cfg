SPECIFICATION Spec
CONSTANTS
    Names = {n1}
    Files = {f1, f2}
    Blocks = {b1, b2}
    MaxFds = 2
    Data = {"0", "a"}
    Zero = "0"
    BlockSize = 2
    MaxSize = 3
    Buffers <- SomeBuffers
    ReadSizes = {0, 1, 2}
    NewSizes = {0, 1, 2, 3, 4}
    Modes = {{}, {"READ"}, {"WRITE"}}
    Dangling = Dangling
    NULL = NULL
SYMMETRY FSSymmetry
VIEW WithoutOutputs
INVARIANTS
    CacheValid
    BlocksSound
PROPERTIES
    ImplementsFlatFS

\* Two buffers; transfers of at most two units that may time out.
CONSTANTS
    None = None
    input = input
    output = output
    Name = {input, output}
    Payload = {x, y}
    Units <- MCUnits
    Chunk = 2
    OutRoom = 2
    InRoom = 5
    TimeOuts = TRUE
    Retries = 2
SPECIFICATION FairSpec
INVARIANTS TypeOK InStep
PROPERTIES ImplementsMailbox CallsReturn

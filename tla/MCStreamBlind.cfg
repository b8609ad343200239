SPECIFICATION Spec
CONSTANTS
    N = 4
    Groups = {2}
    MaxTurns = 0
    Packets = 1
    MaxFrames = 9
    None = None
PROPERTIES SentDecodable

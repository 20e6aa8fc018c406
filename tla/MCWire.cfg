SPECIFICATION Spec
CONSTANTS
    Threads = {t1}
    Messages <- Lines
    Letters = {"a", "b"}
    MAX_MESSAGE_SIZE = 6
    MAX_FIELDS = 3
    Capacity = 4
    MaxMessages = 3
CHECK_DEADLOCK FALSE
INVARIANTS FramesKept FieldsKept SizeLimit
PROPERTIES Arrives

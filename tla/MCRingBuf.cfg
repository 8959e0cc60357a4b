SPECIFICATION RingSpec
CONSTANTS
    Byte = {0, 1}
    Zero = 0
    Capacity = 3
    MaxWrite = 6
PROPERTY
    RefinesByteQueue

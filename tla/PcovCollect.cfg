CONSTANTS
    Files = {"a.php", "x.php"}
    LineNumbers = {1, 2}
    Directory = {"a.php"}
    Discoverable <- MCDiscoverable
    MaxRecords = 4
SPECIFICATION CollectSpec
INVARIANT CollectTypeOK
INVARIANT ListIsTrace
INVARIANT CollectComplete

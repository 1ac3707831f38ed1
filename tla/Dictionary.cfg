CONSTANTS
    Strings = {"id", "page", "admin"}
    Files = {"a.php", "b.php"}
    php_strings = {"page"}
    php_keyable_strings = {}
    MaxLearned = 1
SPECIFICATION Spec
INVARIANT NothingOutOfReach
INVARIANT OnlyWhatIsKnown

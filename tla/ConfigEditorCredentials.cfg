CONSTANTS
    EditorKinds = {"user"}
    Pages = {1}
    EntryKeys = {"a", "b"}
SPECIFICATION EditorSpec
INVARIANTS
    SecretsSurviveEditing
CHECK_DEADLOCK FALSE

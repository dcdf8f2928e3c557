SPECIFICATION Spec
CONSTANTS
    Requests = {1, 2}
    Prompt <- MCPrompt
    num_spec_tokens = 1
    Modes <- MCModes
    BlockTokens = 2
    MaxRestarts = 1
    Unk = Unk
    Zero = Zero
    None = None
INVARIANTS InputsAreTheSequence DiscardsAgree OutputsReachTheirRequest BookkeepingIsTrue

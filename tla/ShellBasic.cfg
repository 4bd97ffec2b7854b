\* No constants: one shell, one child at a time, any number of SIGINTs.
SPECIFICATION FairBasicSpec
INVARIANT HandlerSafe
PROPERTIES PromptTellsFate PromptsAgain
\* The shell may end.
CHECK_DEADLOCK FALSE

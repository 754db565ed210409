\* Texts of any length: what is open and two lines are all there is.
SPECIFICATION MarkdownSpec
CHECK_DEADLOCK FALSE
INVARIANT WellNested

----------------------------- MODULE MCConsole ------------------------------
EXTENDS Console

Token(means, arg) == [means |-> means, arg |-> arg]

\* A number at the beginning, as in the shell's prompt, and a coloured heading.
MCPrompts ==
    {<<Token("number", 12), Token("char", 62)>>,
     <<Token("color", 4), Token("char", 75), Token("color", WHITE)>>}
=============================================================================

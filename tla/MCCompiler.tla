---------------------------- MODULE MCCompiler ------------------------------
(* GSCompiler for TLC: every program of one part of the language up to the  *)
(* bounds.                                                                  *)
EXTENDS GSCompiler

\* Expressions nest deeper without declarations, statements without
\* expressions.
MCLanguages ==
    [operators |-> [work |-> 6, regs |-> 6,
                    words |-> {"end", "DISCARD", "local", "LOAD", "=", "CMP", "ARITH",
                               "logical", "comma", "paren"}],
     calls |-> [work |-> 6, regs |-> 6,
                words |-> {"end", "DISCARD", "RETURN", "local", "LOADINT", "field", "(", "rawcall",
                           "logical", "CMP"}],
     members |-> [work |-> 7, regs |-> 5,
                  words |-> {"end", "DISCARD", "local", "LOAD", "table", "array", "comma", "slot"}],
     objects |-> [work |-> 5, regs |-> 5,
                  words |-> {"end", "DISCARD", "local", "LOAD", "LOADNULLS", "EQ", "TEST", "field", "base",
                             "prefix", "=", "<-", "+=", "++", ".", "[", "<"}],
     functions |-> [work |-> 6, regs |-> 4,
                    words |-> {"end", "RETURN", "local", "LOADINT", "function", "lambda", "outer", "("}],
     outers |-> [work |-> 5, regs |-> 4,
                 words |-> {"end", "RETURN", "local", "LOADINT", "function", "outer", "prefix", "=", "(",
                            "+=", "++"}],
     nesting |-> [work |-> 7, regs |-> 4,
                  words |-> {"end", "LOADINT", "return", "break", "while", "switch", "try"}],
     loops |-> [work |-> 4, regs |-> 4,
                words |-> {"end", "DISCARD", "local", "LOADINT", "=", "+=", "for", "declare", "var"}],
     scopes |-> [work |-> 7, regs |-> 4,
                 words |-> {"end", "DISCARD", "LOADINT", "declare", "lambda", "outer", "block", "while",
                            "break"}],
     cases |-> [work |-> 6, regs |-> 5,
                words |-> {"end", "DISCARD", "LOADINT", "declare", "lambda", "outer", "switch", "return"}],
     others |-> [work |-> 4, regs |-> 4,
                 words |-> {"end", "local", "LOADINT", "simple", "slot", "YIELD", "THROW", "declare",
                            "typed", "function", "return", "=", "if", "block"}]]
=============================================================================

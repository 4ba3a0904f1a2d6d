----------------------------- MODULE MCObjects -----------------------------
\* Instances of GSObjects.
EXTENDS GSObjects

CONSTANTS c1, c2, c3, i1, i2, t0, t1, t2

World(classes, instances, tables, names, values, attrs, maxops) ==
  [classes |-> classes, instances |-> instances, tables |-> tables,
   names |-> names, values |-> values, attrs |-> attrs, maxops |-> maxops]

\* Two fields in two instances; a base and an heir; three generations;
\* constructors and attributes; metamethods of classes; an instance before
\* the root table; three tables and their delegates.
MCWorlds == {
  World({c1}, {i1, i2}, {}, {"x", "y"}, {"p", "q"}, {"null"}, 0),
  World({c1, c2}, {i1}, {}, {"x", "y"}, {"p"}, {"null"}, 0),
  World({c1, c2}, {i1}, {}, {"x"}, {"p", "f"}, {"null"}, 0),
  World({c1, c2, c3}, {i1}, {}, {"x"}, {"p"}, {"null"}, 0),
  World({c1, c2}, {i1}, {}, {"constructor"}, {"f"}, {"null", "at"}, 0),
  World({c1, c2}, {i1}, {}, {"x", "_newmember", "_inherited"}, {"f"}, {"null"}, 0),
  World({c1}, {i1, i2}, {}, {"_cloned"}, {"p", "f"}, {"null"}, 0),
  World({c1}, {i1}, {t0}, {"x", "_set"}, {"f"}, {"null"}, 3),
  World({}, {}, {t0, t1, t2}, {"x", "_set"}, {"p", "q"}, {"null"}, 4),
  World({}, {}, {t0, t1, t2}, {"x", "len", "_get"}, {"p"}, {"null"}, 4),
  World({}, {}, {t0, t1}, {"x", "_newslot", "_delslot", "_cloned"}, {"p"}, {"null"}, 4)}

MCNames == {"x", "y", "len", "constructor", "_set", "_get", "_newslot", "_delslot",
            "_cloned", "_newmember", "_inherited"}
MCMetaNames == {"_set", "_get", "_newslot", "_delslot", "_cloned", "_newmember", "_inherited"}
=============================================================================

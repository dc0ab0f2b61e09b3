---------------------------- MODULE MCSecretSync ----------------------------
(* Specs and bounds for model checking SecretSync.                         *)
EXTENDS SecretSync, TLC

none == NoTemplate
inline(keys, replace, failing, label, broken) ==
    [kind |-> "inline", keys |-> keys, replace |-> replace, failing |-> failing, label |-> label, broken |-> broken]
data(key, name, paths) == [kind |-> "data", key |-> key, name |-> name, paths |-> paths]
extract(key, paths) == [kind |-> "extract", key |-> key, name |-> "-", paths |-> paths]
es(entries, template) == [entries |-> entries, template |-> template]

\* Two paths and a raw twin of one key: a document without g comes through
\* the paths in part.
Twins == es(<<data("k1", "k1", "f" :> "a" @@ "g" :> "b"), data("k1", "k1", <<>>)>>, none)
\* One field of a document, beside another document taken apart.
Mixed == es(<<data("k1", "k1", "f" :> "a"), extract("k2", <<>>)>>, none)
\* No entry left.
Nothing == es(<<>>, none)
\* Templates: replacing the data, rendering nothing, broken.
Replaced == es(<<extract("k2", <<>>)>>, inline({"x"}, TRUE, {}, TRUE, FALSE))
Failing == es(<<extract("k2", <<>>)>>, inline({"x"}, TRUE, {"x"}, FALSE, FALSE))
Broken == es(<<data("k1", "a", <<>>), extract("k2", <<>>)>>, inline({"x"}, TRUE, {}, FALSE, TRUE))

Documents == {Twins, Mixed, Nothing, Replaced, Failing, Broken}
=============================================================================

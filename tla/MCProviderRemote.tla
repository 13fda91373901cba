-------------------------- MODULE MCProviderRemote --------------------------
(* ProviderRemote on small instances. *)
EXTENDS ProviderRemote

CONSTANTS v1, v2, v3, i1, i2

Setup(path, cache, fails, infos, tags) ==
    [path |-> path, cache |-> cache, fails |-> fails, infos |-> infos, tags |-> tags]

(* A file and the cache file, with information that stays and that         *)
(* changes; the cache file alone; a file alone; nothing.  Then lists that  *)
(* never have an ETag, lists of which some have one, and a file and the    *)
(* cache file that cannot always be written.                               *)
AllSetups ==
    {Setup(TRUE, TRUE, {}, {i1}, {TRUE}),
     Setup(TRUE, TRUE, {}, {i1, i2}, {TRUE}),
     Setup(FALSE, TRUE, {"save"}, {None, i1, i2}, {TRUE}),
     Setup(TRUE, FALSE, {"write"}, {None, i1}, {TRUE}),
     Setup(FALSE, FALSE, {}, {i1}, {TRUE}),
     Setup(TRUE, TRUE, {}, {i1}, {FALSE}),
     Setup(TRUE, TRUE, {}, {i1}, BOOLEAN),
     Setup(FALSE, TRUE, {"save"}, {i1}, BOOLEAN),
     Setup(TRUE, TRUE, {"write", "save"}, {i1}, {TRUE})}
=============================================================================

---------------------------- MODULE MCConfigFlow ----------------------------
(* Instances of ConfigFlow for TLC. *)
EXTENDS ConfigFlow, TLC

CONSTANTS home, away

Of(version, family, scope, old) ==
    [version |-> version, family |-> family, scope |-> scope, password |-> Right,
     old |-> old, selected |-> None]

\* Entries of an old version with its selection and without a unique id, and one that
\* is too new.
AnyVersion == {Of(2, home, "account", home), Of(2, away, None, None), Of(4, home, home, None)}
OneOld == {Of(2, home, "account", None)}
=============================================================================

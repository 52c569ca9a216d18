---------------------------- MODULE MCCommands ----------------------------
(* Instances of Commands for TLC. *)
EXTENDS Commands

CONSTANTS x, y, z

TwoBids == {<<x>>, <<x, y>>}
\* One key looks like another one with a business ID before it.
SomeKeys == {<<z>>, <<x, Sep, z>>, <<y, Sep, z>>}
TwoKeys == {<<z>>, <<x, Sep, z>>}
TwoValues == {<<y>>, <<z>>}
JustX == {<<x>>}
=============================================================================

---------------------------- MODULE MCChangeLog ----------------------------
(* The DiskMods of tests that work on two files. *)
EXTENDS ChangeLog

Mod(type, opt, path, loc, len) ==
    [type |-> type, opt |-> opt, path |-> path, loc |-> loc, len |-> len]

MCMods == {Mod("create", "none", <<"a">>, 0, 0),
           Mod("data_meta", "truncate", <<"a">>, 0, 0),
           Mod("data_meta", "none", <<"a">>, 0, 2),
           Mod("data", "none", <<"a">>, 1, 1),
           Mod("data_meta", "falloc", <<"a">>, 1, 2),
           Mod("range", "none", <<"b">>, 0, 1),
           Mod("fsync", "none", <<"b">>, 0, 0),
           Mod("sync", "none", <<>>, 0, 0),
           Mod("remove", "none", <<"b">>, 0, 0),
           Mod("checkpoint", "none", <<>>, 0, 0)}
=============================================================================

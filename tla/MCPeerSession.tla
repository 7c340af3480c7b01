---------------------------- MODULE MCPeerSession ----------------------------
(***************************************************************************)
(* Instances of PeerSession for TLC: headers of two bytes, payloads of one *)
(* and frames of every form.                                               *)
(***************************************************************************)
EXTENDS PeerSession

Frame(command, length, form) == [command |-> command, length |-> length, form |-> form]
AllForms ==
    {Frame("version", 1, "valid"), Frame("verack", 0, "valid"), Frame("ping", 1, "valid"),
     Frame("verack", 1, "corrupt"), Frame("version", 0, "alien"), Frame("ping", 3, "oversize")}
=============================================================================

------------------------------ MODULE ChangeMsg ------------------------------
(* What a process broadcasts when a role joins or leaves:                  *)
(* config/topology_change.h and config/RoleAttributes.h. Of the fields,    *)
(* those that discovery tells roles by: what happened, and the id of the   *)
(* role. The channel_id is not serialised.                                 *)
EXTENDS DataStream

Serialize(order, operate_type, id) ==
  LET change == Write(WriteCustom(Stream(<<>>, order)), "INT32", operate_type)
      role_attr == Write(WriteCustom(change), "UINT64", id)
  IN role_attr.buf

(* The results of read_args are not looked at.                             *)
Unserialize(order, buf) ==
  LET operate_type == Read(ReadCustom(Stream(buf, order)).stream, "INT32")
      id == Read(ReadCustom(operate_type.stream).stream, "UINT64")
  IN [operate_type |-> operate_type.value, id |-> id.value]
==============================================================================

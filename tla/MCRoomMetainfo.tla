----------------------------- MODULE MCRoomMetainfo -----------------------------
(* RoomMetainfo with two rooms, one of them known, and two tasks that watch. *)
EXTENDS RoomMetainfo, TLC
===============================================================================

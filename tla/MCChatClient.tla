---------------------------- MODULE MCChatClient ----------------------------
(* Small instances of ChatClient for TLC.                                   *)
EXTENDS ChatClient, TLC

ChatSymmetry == Permutations(Sockets) \cup Permutations(Rooms) \cup Permutations(Users)
=============================================================================

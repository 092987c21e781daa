---------------------------- MODULE MCChatRouting ----------------------------
(* One chat, two threads, two jobs.                                        *)
EXTENDS ChatRouting, TLC

ChatSymmetry == Permutations(Chats) \cup Permutations(Threads) \cup Permutations(Jobs)
=============================================================================

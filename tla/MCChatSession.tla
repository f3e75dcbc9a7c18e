---- MODULE MCChatSession ----
EXTENDS ChatSession, TLC

\* Requests differ in nothing but their name.
RequestSymmetry == Permutations(Requests)
====

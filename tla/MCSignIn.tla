------------------------------- MODULE MCSignIn -------------------------------
(* A small instance of SignIn for TLC.                                         *)
EXTENDS SignIn

MCOthers ==
  {[do |-> "lock"], [do |-> "unlock"], [do |-> "request"], [do |-> "oauth"],
   [do |-> "change", old |-> "p1", new |-> "p1"], [do |-> "leave", token |-> First],
   [do |-> "assign", role |-> "r"], [do |-> "revoke", role |-> "r"]}
MCDevice ==
  {[do |-> "login", password |-> "p1"], [do |-> "refresh", token |-> First], [do |-> "logout"],
   [do |-> "lock"], [do |-> "change", old |-> "p1", new |-> "p1"], [do |-> "assign", role |-> "r"]}

\* Two tabs; one tab while others change the account; the account with another device.
MCScenes ==
  {[tabs |-> Tabs, reloads |-> 0, calls |-> {"c1", "c2"}, others |-> {}],
   [tabs |-> {"t1"}, reloads |-> 1, calls |-> {"c1", "c2"}, others |-> MCOthers],
   [tabs |-> {}, reloads |-> 0, calls |-> Calls, others |-> MCDevice]}
=============================================================================

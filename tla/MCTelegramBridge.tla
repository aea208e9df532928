-------------------------- MODULE MCTelegramBridge --------------------------
(* TelegramBridge with two users, each in a private chat.                  *)
EXTENDS TelegramBridge
CONSTANTS u1, u2, g1, g2, k1, k2
PrivateChats == {<<u1, g1>>, <<u2, g2>>}
=============================================================================

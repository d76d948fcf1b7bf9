----------------------------- MODULE MCAvatars -----------------------------
(* A small instance of Avatars: two logins in the chat of one user.        *)
EXTENDS Avatars

CONSTANTS user, emoji, l1, s1, s2

OneUser    == {user}
OneEmoji   == {emoji}
OneLookup  == {l1}
TwoLogins  == {s1, s2}
=============================================================================

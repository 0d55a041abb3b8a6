\* Two profile edits of the account overlap.
CONSTANTS
  u = u  n = n  w1 = w1  w2 = w2
  pwA = pwA  pwB = pwB  nickA = nickA  nickB = nickB  wx = wx
  User = {u}
  StudentNo = {n}
  Password = {pwA, pwB}
  Nickname = {nickA, nickB}
  Contact = {wx}
  Worker = {w1, w2}
SPECIFICATION AccountSpec
SYMMETRY Symmetry
PROPERTY
  ContactsStay

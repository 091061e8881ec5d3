-------------------------- MODULE MCAccountProtocol --------------------------
(***************************************************************************)
(* Instances of AccountProtocol for TLC.  A registration under the second  *)
(* name has a byte more than m_read_buf has room for, or, with an empty    *)
(* password, fits in m_read_buf; neither the INSERT nor the SELECT with    *)
(* this name fits in sql.                                                  *)
(***************************************************************************)
EXTENDS AccountProtocol, TLC

CONSTANTS n1, n2, p1, p2

MCNames == {n1, n2}
MCPwds == {p1, p2}

MCLength ==
  [w \in MCNames \cup MCPwds \cup Commands \cup Parts \cup {"", "(null)"} |->
    CASE w = n1 -> 6 [] w = n2 -> 977 [] w \in MCPwds -> 8
      [] w = "seradd" -> 12 [] w = "seruser" -> 6 [] w = "serpwd" -> 8
      [] w = "more" -> 3 [] w = "(null)" -> 6 [] w = "" -> 0
      [] w = "register" -> 8 [] w = "login" -> 5
      [] w = "register ok" -> 11 [] w = "login ok" -> 8 [] w = "login error" -> 11]

(* Passwords are interchangeable.                                          *)
Symmetry == Permutations(MCPwds)

=============================================================================

--------------------------- MODULE MCSystemProxy ---------------------------
(* SystemProxy with the settings of a direct user, of one with a proxy, of *)
(* one with a PAC file, and of one who enabled a proxy without a server.   *)
EXTENDS SystemProxy

Setting(enable, server, override, pac, detect) ==
  [enable |-> enable, server |-> server, override |-> override, pac |-> pac,
   detect |-> detect]

MCOriginals == {Setting(FALSE, "absent", "absent", "absent", "absent"),
                Setting(TRUE, "user", "user", "absent", "off"),
                Setting(FALSE, "user", "absent", "url", "on"),
                Setting(TRUE, "absent", "absent", "absent", "off")}

MCOthers == {Setting(TRUE, "other", "absent", "absent", "off"),
             Setting(FALSE, "absent", "absent", "url", "absent")}
============================================================================

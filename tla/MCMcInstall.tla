---------------------------- MODULE MCMcInstall ----------------------------
(* Consoles, cards and package of a small instance of McInstall. *)
EXTENDS McInstall

J100 == Console("J", \h100, "PS2")
A120 == Console("A", \h120, "PS2")
E160 == Console("E", \h160, "PS2")
X180 == Console("J", \h180, "PSX")
D160 == Console("A", \h160, "DEX")
MCConsoles == {J100, A120, E160, X180, D160}

MCPackage == [f \in ToSet(PackageFolders) |-> IF f = "BOOT" THEN << <<"PKG", "boot">> >> ELSE <<>>]

(* Cards of a user who has made a multi-installation with an older release, under names in one folder alone. *)
Blank == [files |-> {}, shared |-> {}, uninst |-> NoFile, legacy |-> NoFile]
Other(version) ==
  [files |-> {<<"A", "osd120">>, <<"A", "osd130">>, <<"A", "osdmain">>, <<"A", "icon">>, <<"PKG", "boot">>,
              <<"CONF", "endvdpl">>, <<"CONF", "usbhdfsd">>, Cnf},
   shared |-> {<<"A", "osd120">>, <<"A", "osd130">>, <<"A", "osdmain">>},
   uninst |-> [by |-> A120, names |-> {"osd120", "osdmain"}, readable |-> TRUE, version |-> version]]
Version100 == [legacy |-> NoFile] @@ Other(100)
Legacy == [uninst |-> NoFile, legacy |-> Other(0).uninst] @@ Other(0)
MCCards == {Blank, Version100, Legacy}
=============================================================================

------------------------------ MODULE MCProgram ------------------------------
EXTENDS Program

Edited(empty, unknown) == PackagesWith(empty, unknown)

MCPackageFiles ==
    {NoFile, Special, Broken, Defaults,
     Edited({"core"}, {}), Edited({"platform_intel", "kde_recommended", "secure_boot_live"}, {}),
     Edited({"local_mirror_live"}, {"gnome_laptop", "nvidia_graphics", "firewall"})}

(* A GNOME laptop with everything and a virtual machine. *)
Laptop ==
    [platform |-> "amd", kernel |-> "zen", desktop |-> "gnome", identity |-> "good",
     on |-> {"laptop", "nvidia_graphics", "bluetooth", "desktop_recommended", "chinese_input",
             "firewall", "printer", "china_mirrors", "local_mirror"}]
Machine ==
    [platform |-> "vm", kernel |-> "lts", desktop |-> "hyprland", identity |-> "taken",
     on |-> {"chinese_input", "extra_tools", "desktop_apps", "secure_boot", "create_efi_entry"}]

File(system) ==
    [json |-> TRUE, fields |-> TRUE, version |-> 4, disks |-> 1, partitions |-> 2, mode |-> 1,
     size |-> 9, number |-> 2, usage |-> 1, text |-> "short", system |-> system]

(* Nothing is where a file without disks or partitions has no value. *)
Without == [File(DefaultSystem) EXCEPT !.disks = 0, !.partitions = 0, !.mode = 0, !.size = 0, !.number = 0,
                                       !.usage = 0, !.text = ""]
MCSessionFiles == {File(Laptop), File(Machine)}
MCPlanFiles ==
    MCSessionFiles
    \cup {[File(DefaultSystem) EXCEPT !.version = v, !.disks = d, !.mode = m] :
            v \in {3, 4}, d \in 1 .. 3, m \in -1 .. 5}
    \cup {[File(DefaultSystem) EXCEPT !.partitions = p, !.size = z, !.number = n, !.usage = u, !.text = x] :
            p \in 1 .. 3, z \in {-1, 0, 63, 64, 128}, n \in {-1, 0, 15, 16, 31, 32}, u \in {-1, 0, 7, 8},
            x \in {"short", "long"}}
    \cup {[Without EXCEPT !.disks = d] : d \in {0, 1}}
    \cup {[File(DefaultSystem) EXCEPT !.json = j, !.fields = f] : j \in BOOLEAN, f \in BOOLEAN}

Device(n, t, m, c) == [name |-> n, type |-> t, mounted |-> m, rm |-> FALSE, usb |-> FALSE, children |-> c]
Leaves == {Device("crypt", "crypt", m, <<>>) : m \in BOOLEAN}
Parts  == {Device(n, "part", m, c) : n \in {"p1", "p2"}, m \in BOOLEAN, c \in {<<>>} \cup {<<l>> : l \in Leaves}}
              \cup {Device("p1", "part", FALSE, <<Device("p5", "part", m, <<>>)>>) : m \in BOOLEAN}
Disks  == {Device("a", "disk", m, <<>>) : m \in BOOLEAN}
              \cup {Device("a", "disk", FALSE, <<p, q>>) :
                       p \in {x \in Parts : x.name = "p1"}, q \in {x \in Parts : x.name = "p2"}}
Other  == Device("b", "disk", FALSE, <<Device("p1", "part", FALSE, <<>>), Device("p2", "part", FALSE, <<>>),
                                       Device("p3", "part", FALSE, <<>>), Device("vg", "lvm", FALSE, <<>>)>>)
(* An array made of two volumes is listed beneath each of them. *)
Array  == Device("raid", "raid1", FALSE, <<Device("m", "part", FALSE, <<>>)>>)
Spread == Device("c", "disk", FALSE,
              <<Device("p1", "part", FALSE, <<Device("lv1", "lvm", FALSE, <<Array>>), Device("lv2", "lvm", FALSE, <<Array>>)>>),
                Device("p2", "part", FALSE, <<>>)>>)
Bare == {d \in Disks : d.children = <<>>}
Loop == Device("loop", "loop", TRUE, <<>>)
MCDeviceTrees ==
    {<<>>, <<Spread>>, <<Loop>>} \cup {<<d>> : d \in Bare}
    \cup {<<Loop, d, Other>> : d \in Disks} \cup {<<Other, d, Other>> : d \in Bare}

MCDevices ==
    LET below[n \in 0 .. 4] == IF n = 0 THEN UNION {ToSet(trees) : trees \in MCDeviceTrees}
                               ELSE UNION {{d} \cup ToSet(d.children) : d \in below[n - 1]}
    IN  below[4]

L == "letter"
B == "blank"
N == "feed"
MCWarnings ==
    [local_mirror |-> {<<L, L, L, B, L, L, B, L>>, <<L, N, L, N, L, N, L, N, L>>},
     secure_boot |-> {<<L, L, N, N, B, L, L, L, L, L>>, <<B, L, L, B, B, L, L, L, B>>},
     run |-> {<<L, L, L, L, B, L>>}, quit |-> {<<L, B, L, L, L>>}]
=============================================================================

---------------------------- MODULE MC_DriverRun ----------------------------
(* Stray datagrams for DriverRun: one question whose name is built from a *)
(* few bytes, among them a compression pointer to the question itself,    *)
(* and answers of two A records with data of 0 or 4 bytes.                *)
EXTENDS DriverRun

NoDomain == {<<>>, <<120, 46, 99, 111>>}

Header(an) == <<0, 0, 129, 128, 0, 1, 0, an, 0, 0, 0, 0>>
Question(b) == b \o <<0, 0, 1, 0, 1>>
ARecord(rd) == <<192, 12, 0, 1, 0, 1, 0, 0, 0, 60, 0, Len(rd)>> \o rd
StrayDatagrams ==
    {Header(0) \o Question(b) : b \in SeqOf({0, 1, 65, 192, 12}, 2)}
    \cup {Header(2) \o Question(<<>>) \o ARecord(r1) \o ARecord(r2) :
            r1, r2 \in {<<>>, <<1, 3, 0, 66>>, <<2, 65, 66, 67>>}}
====

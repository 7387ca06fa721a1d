--------------------------- MODULE MCGraphqlBuild ---------------------------
(* Small instances of GraphqlBuild for TLC. *)
EXTENDS GraphqlBuild, TLC

MCMembers == [Baseboard |-> {"Name"}, Sensors |-> {"Name", "Unit"}]

\* One baseboard, and two sensors, of which any may stay or come.
MCInstances == [Baseboard |-> {1}, Sensors |-> {1, 2}]
MCGenerations == {{}, {1}, {1, 3}}
\* linkStatus and the default of Status; the baseboard has neither.
MCSupplemented == {"Sensors"}

Op(fs) == [type |-> "query", variables |-> FALSE, fields |-> fs]

Flat == <<Op(<<Object("Sensors", <<Scalar("Name"), Scalar("Unit")>>)>>)>>
Deep == <<Op(<<Object("Baseboard", <<Scalar("Name"),
                 [Object("Sensors", <<Scalar("Unit"), Scalar("Unit")>>)
                    EXCEPT !.alias = "Name"],
                 Object("Sensors", <<Object("Baseboard", <<Scalar("Name")>>)>>)>>)>>)>>
Alone == <<Op(<<Object("Baseboard", <<Scalar("Name")>>)>>)>>
Two == <<Op(<<Object("Baseboard", <<Scalar("Name")>>)>>),
         Op(<<Object("Sensors", <<Scalar("Unit")>>)>>)>>
UnknownEntity == <<Op(<<Object("Baseboard", <<Object("Disk", <<Scalar("Name")>>)>>)>>)>>
UnknownMember == <<Op(<<Object("Sensors", <<Scalar("Name"), Aliased("Unit", "u")>>)>>)>>
AtRoot == <<Op(<<Scalar("Name")>>)>>
Mutation == Append(Two, [Op(<<Scalar("Name")>>) EXCEPT !.type = "mutation"])
Variables_ == <<[Op(<<Scalar("Name")>>) EXCEPT !.variables = TRUE]>>

MCQueries == {Flat, Deep, Alone, Two, UnknownEntity, UnknownMember, AtRoot, Mutation, Variables_}

\* The selection sets of a selection set, and how deep it is.
RECURSIVE Within(_), Height(_)
Within(s) == {s} \cup UNION {Within(s[i].fields) : i \in DOMAIN s}
Height(s) == Max({0} \cup {1 + Height(s[i].fields) : i \in DOMAIN s})

MCDepth == [s \in UNION {Within(q[i].fields) : <<q, i>> \in
                {<<q, i>> \in MCQueries \X (1..2) : i <= Len(q)}} |-> Height(s)]
=============================================================================

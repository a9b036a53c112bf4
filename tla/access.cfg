CONSTANTS
 u1=u1
 u2=u2
 c1=c1
 c2=c2
 q1=q1
 q2=q2
 v1=v1
 v2=v2
 User={u1,u2}
 NoUser=NoUser
 OwnRole={"lead"}
 AReq={q1,q2}
 Alone={"promote"}
 MaxTokens=2
 Code={c1,c2}
 IReq={v1,v2}
 OpenId={"wx"}
 NoId="none"
 t1=t1
 t2=t2
 Tenant={t1,t2}
 Applic={"a1"}
 Reviewer={"r1","r2"}
 Caller={"k1","k2"}
 Ttl=2
 Slow=1
 Horizon=4
 p1=p1
 p2=p2
 e1=e1
 e2=e2
 FlowReq={e1,e2}
 Flow<-MCFlow
 MReq={e1,e2}
 Person={p1,p2}
 Skills<-MCSkills
 Score<-MCScore
 Category={"c1"}
 Rules<-MCRules
 Needs<-MCNeeds
 Tags={{},{"air"},{"lift"}}
 MaxRules=2
 MaxLoad=1
 ROrder={"o1"}
 RState={"open","review","passed","closed","cancelled"}
 RFlows<-MCRFlows
 Condition={"any","calm"}
 Trait={"calm","odd"}
 Holds<-MCHolds
 Report={"o1","o2"}
 Reporting={v1,v2}
 Slip={"k"}
 NoSlip="nil"
 DailyLimit=2
 Editor={e1,e2}
 NoReport=NoReport
 MaxRedone=2
 Beside=FALSE
 Parts={"accounts","roles","invites","status","review","flows","masters","dispatch","reviews","reports"}
SPECIFICATION Spec
SYMMETRY Sym
INVARIANT AdminRemains
INVARIANT RolesDefined
INVARIANT ServedLately
INVARIANT OneTenantEach
INVARIANT RetiredStayOut
INVARIANT EditsKept
INVARIANT HighestRuleDecides
INVARIANT AutoNeverEnds
INVARIANT TokenFindsReport
INVARIANT EvidenceKept
PROPERTY OnlyGoodCodes
CHECK_DEADLOCK FALSE

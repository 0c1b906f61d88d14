SPECIFICATION FairSpec
CONSTANTS
 u=u
 w=w
 c1=c1
 c2=c2
 c3=c3
 c4=c4
 big=big
 b1=b1
 b2=b2
 s1=s1
 s2=s2
 Saves={b1,b2}
 Starts={s1,s2}
 Files <- MCFiles
 Bind <- MCBind
 Budget <- OneMishap
 Oversized = {big}
 MaxVersions = 1
INVARIANTS JobIffSealed AckedKept
PROPERTIES PopupSettles
CHECK_DEADLOCK FALSE

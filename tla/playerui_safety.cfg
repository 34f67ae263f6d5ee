CONSTANTS Kinds = {"file", "radio", "m3u_url", "unknown"}  MaxItems = 2  QueueMax = 4  RequestMax = 8  InfoMax = 4
SPECIFICATION FairSpec
INVARIANTS OneSession StopRequestStands ModeAgrees
PROPERTY StopHappens

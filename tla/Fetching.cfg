SPECIFICATION FairSpec
CONSTANTS
    p = p
    q = q
    rp = rp
    rq = rq
    x = x
    public = public
    private = private
    Urls = {p, q, rp, rq, x}
    NoUrl = NoUrl
    NotWeb = {x}
    Sites <- MCSites
    Site <- MCSite
    Robots <- MCRobots
    Hosts <- MCSites
    Host <- MCSite
    Addresses = {public, private}
    Public = {public}
    Rules <- MCRules
    Unknown = Unknown
    FeedPaths <- MCFeedPaths
    MaxRedirects = 1
    MaxRobotsRedirects = 1
    MaxAnnounced = 1
    PageDeadline = 1
    FeedDeadline = 2
    Threads = 1
INVARIANTS
    NeverAstray
    RobotsObeyed
PROPERTIES
    EachPageTried

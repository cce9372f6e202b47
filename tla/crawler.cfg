\* Two crawls of one site that changes once, one of them killed, a name that changes.
SPECIFICATION FairSpec
CONSTANTS
    Crawls = {c1, c2}
    home = home
    robots = robots
    near = near
    twin = twin
    far = far
    paper = paper
    private = private
    off = off
    here = here
    there = there
    open = open
    closed = closed
    NoAddress = none
    Urls = {home, robots, near, twin, far, paper, private, off}
    Start = home
    Robots = robots
    Hosts = {here, there}
    HostOf <- Hosted
    Skipped = {paper}
    Refused = {}
    Addresses = {open, closed}
    Blocked = {closed}
    AllowedHosts = {}
    Respect = TRUE
    MaxRedirects = 1
    Limits = {3}
    Texts = {"t0", "t1", "t2", "t3", "t4"}
    Sites <- Webs
    Lookups <- Names
    MaxChanges = 1
    MaxDeaths = 1
INVARIANTS CorpusSound BreadthFirst PolicyKept Repeats
PROPERTIES CorpusServed CrawlEnds
CHECK_DEADLOCK FALSE
